---------------------------- MODULE Spec2Model ----------------------------
(***************************************************************************)
(* A model of the image-optimizer middleware: the request handler of       *)
(* createImageMiddleware in its two variants (the root-detecting one and   *)
(* the one configured with projectRoot/assetsDir), the helpers it calls    *)
(* (generateCacheKey, isUrl, resolveLocalImagePath, detectImagesLocalDir)  *)
(* and the file system they act on.                                        *)
(*                                                                         *)
(* Strings are sequences of one-character strings, so that startsWith,     *)
(* split, indexOf and the path functions of node are computed character    *)
(* by character, as the code computes them.                                *)
(***************************************************************************)
EXTENDS Integers, Sequences, FiniteSets, TLC

VARIABLES
    variant,                 \* which createImageMiddleware built the instance
    headers,                 \* config.headers: name -> value
    image,                   \* README.md: the Image component and its img element
    imagesLocalDir,          \* part_000: let imagesLocalDir
    imagesLocalDirDetected,  \* part_000: let imagesLocalDirDetected
    fs,                      \* the file system: path -> bytes
    reqs,                    \* the requests: their position and local variables
    call,                    \* the arguments of a call of a pure function
    ret                      \* what that call returned

vars == <<variant, headers, image, imagesLocalDir, imagesLocalDirDetected, fs, reqs, call, ret>>

----------------------------------------------------------------------------
(* Bounds of the model.                                                    *)

\* The longest raw path handed to resolveLocalImagePath.
MaxRawLen == 5

\* The number of requests an instance receives.
MaxReqs == 2

\* The number of write() calls that store one encoded image.
FullLen == 1

\* The number of times the parent of an Image renders it with another src.
MaxSrcChanges == 2

\* The largest width and height of a source image in the resize runs.
MaxSide == 4

----------------------------------------------------------------------------
(* JavaScript values.                                                      *)

\* The Image component before its first render: its three states, the img
\* element, the event the browser has queued for the element's listeners,
\* which of onLoad and onError the consumer passed and how often each was
\* called, and the number of src changes so far.
NotRendered ==
    [phase |-> "none", isLoaded |-> FALSE, hasError |-> FALSE, isMounted |-> FALSE,
     img |-> "absent", event |-> "none", props |-> {},
     onLoad |-> 0, onError |-> 0, changes |-> 0]

NULL == <<"<null>">>

UNDEFINED == <<"<undefined>">>

\* !!v for a string, null or undefined.
Truthy(v) == v # NULL /\ v # UNDEFINED /\ v # <<>>

\* F(e), with e evaluated once.
With(e, F(_)) == CHOOSE y \in {F(x) : x \in {e}} : TRUE

\* The least element of a set of numbers.
Min(S) == CHOOSE i \in S : \A j \in S : i <= j

\* String.prototype.startsWith
StartsWith(s, p) ==
    \E sv \in {s}, pv \in {p} : Len(pv) <= Len(sv) /\ SubSeq(sv, 1, Len(pv)) = pv

\* String.prototype.indexOf, 1-based; 0 when `p` does not occur (-1 in JS).
IndexOf(s, p) ==
    With(<<s, p>>, LAMBDA a :
        With({i \in 1..(Len(a[1]) - Len(a[2]) + 1) :
                 SubSeq(a[1], i, i + Len(a[2]) - 1) = a[2]},
             LAMBDA hits : IF hits = {} THEN 0 ELSE Min(hits)))

\* s.split(sep), sep one character: the pieces between the separators.
RECURSIVE Split(_, _)
Split(s, sep) ==
    With(s, LAMBDA sv :
        With(IndexOf(sv, <<sep>>), LAMBDA i :
            IF i = 0 THEN <<sv>>
            ELSE <<SubSeq(sv, 1, i - 1)>> \o Split(SubSeq(sv, i + 1, Len(sv)), sep)))

\* pieces.join(sep)
RECURSIVE Join(_, _)
Join(pieces, sep) ==
    With(pieces, LAMBDA ps :
        IF ps = <<>> THEN <<>>
        ELSE IF Len(ps) = 1 THEN ps[1]
        ELSE ps[1] \o <<sep>> \o Join(Tail(ps), sep))

----------------------------------------------------------------------------
(* node's path module (posix).                                             *)

\* process.cwd()
Cwd == <<"/", "r">>

IsAbsolute(p) == Len(p) > 0 /\ p[1] = "/"

\* normalizeString of node's path: drops empty and "." segments and lets ".."
\* remove the segment before it; above the root ".." is dropped when the path
\* is absolute and kept when it is relative.
RECURSIVE NormalizeSegs(_, _, _)
NormalizeSegs(segs, acc, allowAboveRoot) ==
    With(<<segs, acc>>, LAMBDA a :
        IF a[1] = <<>> THEN a[2]
        ELSE LET s == Head(a[1])
                 rest == Tail(a[1])
                 res == a[2]
             IN  IF s = <<>> \/ s = <<".">>
                   THEN NormalizeSegs(rest, res, allowAboveRoot)
                 ELSE IF s = <<".", ".">>
                   THEN IF res # <<>> /\ res[Len(res)] # <<".", ".">>
                          THEN NormalizeSegs(rest, SubSeq(res, 1, Len(res) - 1),
                                             allowAboveRoot)
                        ELSE IF allowAboveRoot
                          THEN NormalizeSegs(rest, Append(res, s), allowAboveRoot)
                        ELSE NormalizeSegs(rest, res, allowAboveRoot)
                 ELSE NormalizeSegs(rest, Append(res, s), allowAboveRoot))

\* path.normalize
pathNormalize(p) ==
    With(p, LAMBDA pv :
        IF pv = <<>> THEN <<".">>
        ELSE With(Join(NormalizeSegs(Split(pv, "/"), <<>>, ~IsAbsolute(pv)), "/"),
                  LAMBDA body :
                    LET abs == IsAbsolute(pv)
                        trailing == pv[Len(pv)] = "/"
                        body2 == IF body = <<>> /\ ~abs THEN <<".">> ELSE body
                        body3 == IF body2 # <<>> /\ trailing THEN body2 \o <<"/">>
                                                               ELSE body2
                    IN  IF abs THEN <<"/">> \o body3 ELSE body3))

\* path.join(a, b): the non-empty arguments joined by "/" and normalized.
pathJoin(a, b) ==
    With(<<a, b>>, LAMBDA ab :
        IF ab[1] = <<>> /\ ab[2] = <<>> THEN <<".">>
        ELSE IF ab[1] = <<>> THEN pathNormalize(ab[2])
        ELSE IF ab[2] = <<>> THEN pathNormalize(ab[1])
        ELSE pathNormalize(ab[1] \o <<"/">> \o ab[2]))

\* path.resolve(p): absolute (against the working directory when `p` is
\* relative), normalized, without a trailing separator.
pathResolve(p) ==
    With(p, LAMBDA pv :
        LET full == IF IsAbsolute(pv) THEN pv ELSE Cwd \o <<"/">> \o pv
        IN  <<"/">> \o Join(NormalizeSegs(Split(full, "/"), <<>>, FALSE), "/"))

\* path.resolve(a, b)
pathResolve2(a, b) ==
    With(<<a, b>>, LAMBDA ab :
        IF IsAbsolute(ab[2]) THEN pathResolve(ab[2])
        ELSE pathResolve(ab[1] \o <<"/">> \o ab[2]))

LastIndexOf(s, c) ==
    LET hits == {i \in 1..Len(s) : s[i] = c}
    IN  IF hits = {} THEN 0 ELSE CHOOSE i \in hits : \A j \in hits : j <= i

RECURSIVE StripTrailingSlashes(_)
StripTrailingSlashes(p) ==
    IF Len(p) > 1 /\ p[Len(p)] = "/" THEN StripTrailingSlashes(SubSeq(p, 1, Len(p) - 1))
    ELSE p

\* dirname(1)
Dirname(p) ==
    LET t == StripTrailingSlashes(p)
        i == LastIndexOf(t, "/")
    IN  IF i = 0 THEN <<".">>
        ELSE IF StripTrailingSlashes(SubSeq(t, 1, i)) = <<"/">> THEN <<"/">>
        ELSE StripTrailingSlashes(SubSeq(t, 1, i - 1))

\* basename(1)
Basename(p) ==
    LET t == StripTrailingSlashes(p)
        i == LastIndexOf(t, "/")
    IN  IF t = <<"/">> THEN t ELSE SubSeq(t, i + 1, Len(t))

RECURSIVE AncestorsOf(_)
AncestorsOf(p) ==
    IF p = <<"/">> THEN {} ELSE {Dirname(p)} \cup AncestorsOf(Dirname(p))

\* The segments of an absolute, normalized path.
Segments(p) == NormalizeSegs(Split(p, "/"), <<>>, FALSE)

\* `p` is `root` or lies below it, compared path segment by path segment.
IsInside(p, root) ==
    \E ps \in {Segments(p)}, rs \in {Segments(root)} :
        Len(rs) <= Len(ps) /\ SubSeq(ps, 1, Len(rs)) = rs

----------------------------------------------------------------------------
(* Source resolution.                                                      *)

\* isUrl
HttpPrefix == <<"h", "t", "t", "p", ":", "/", "/">>

HttpsPrefix == <<"h", "t", "t", "p", "s", ":", "/", "/">>

isUrl(source) == StartsWith(source, HttpPrefix) \/ StartsWith(source, HttpsPrefix)

\* resolveLocalImagePath of the root-detecting middleware.
resolveLocalImagePath(relativePath, dir) ==
    LET normalizedPath == IF StartsWith(relativePath, <<"/">>)
                            THEN relativePath
                            ELSE <<"/">> \o relativePath
        fullPath == pathJoin(dir, normalizedPath)
        resolvedPath == pathResolve(fullPath)
    IN  IF ~StartsWith(resolvedPath, pathResolve(dir))
          THEN NULL
          ELSE resolvedPath

AssetsPrefix == <<"a", "s", "s", "e", "t", "s", "/">>

AssetsName == <<"a", "s", "s", "e", "t", "s">>

\* resolveLocalImagePath of the middleware configured with projectRoot and
\* assetsDir.
resolveLocalImagePathIn(relativePath, projectRoot, assetsDir) ==
    LET normalizedPath == IF StartsWith(relativePath, <<"/">>)
                            THEN SubSeq(relativePath, 2, Len(relativePath))
                            ELSE relativePath
    IN  IF StartsWith(normalizedPath, AssetsPrefix)
          THEN LET fullPath == pathJoin(projectRoot, normalizedPath)
                   resolvedPath == pathResolve(fullPath)
                   projectAssetsDir == pathResolve2(projectRoot, AssetsName)
               IN  IF ~StartsWith(resolvedPath, projectAssetsDir)
                     THEN NULL
                     ELSE resolvedPath
          ELSE LET fullPath == pathJoin(assetsDir, normalizedPath)
                   resolvedPath == pathResolve(fullPath)
               IN  IF ~StartsWith(resolvedPath, pathResolve(assetsDir))
                     THEN NULL
                     ELSE resolvedPath

----------------------------------------------------------------------------
(* The world the instance runs in: its configuration, the files on disk    *)
(* and the remote hosts.                                                   *)

\* config.cacheDir
CacheDir == <<"/", "c">>

\* config.projectRoot
ProjectRoot == Cwd

\* config.assetsDir
AssetsDir == <<"/", "r", "/", "p">>

\* A public image, an image beside the detected root, a bundled asset and an
\* image beside the configured assetsDir.
PublicImage == <<"/", "r", "/", "p", "/", "x">>

OutsideImage == <<"/", "r", "b", "/", "x">>

BundledAsset == <<"/", "r", "/", "a", "s", "s", "e", "t", "s", "/", "x">>

BesideAssets == <<"/", "r", "/", "p", "q", "/", "x">>

RemoteUrl == HttpPrefix \o <<"h">>

\* The same remote image, asked for with a query string.
RemoteUrlQuery == RemoteUrl \o <<"?", "v">>

\* The images that decode, with their intrinsic width and height.
ImageSize ==
    [imgP |-> <<4, 2>>, imgO |-> <<2, 4>>, imgB |-> <<2, 2>>, imgQ |-> <<3, 3>>,
     imgU |-> <<4, 4>>]

\* What a file or a response body is made of: the image, its size, and the
\* quality and format it was encoded with (none for a source file).
Blob(img, w, h, q, fmt) == [img |-> img, w |-> w, h |-> h, q |-> q, fmt |-> fmt]

SourceBlob(img) == Blob(img, ImageSize[img][1], ImageSize[img][2], 0, <<>>)

Hole == Blob("zero", 0, 0, 0, <<>>)

\* The bytes of a blob: FullLen blocks, each written by one write().
Bytes(blob) == [i \in 1..FullLen |-> [of |-> blob, part |-> i]]

\* The regular files present when the instance is constructed.
InitialFiles ==
    (PublicImage :> Bytes(SourceBlob("imgP")))
    @@ (OutsideImage :> Bytes(SourceBlob("imgO")))
    @@ (BundledAsset :> Bytes(SourceBlob("imgB")))
    @@ (BesideAssets :> Bytes(SourceBlob("imgQ")))

\* A directory: the cache directory, or a directory above a file.
IsDirectory(files, p) ==
    \/ p = CacheDir
    \/ \E f \in DOMAIN files : p \in AncestorsOf(f)

\* fs.existsSync
existsSync(files, p) == p \in DOMAIN files \/ IsDirectory(files, p)

\* fs.readFileSync succeeds on a regular file (it throws on a directory or a
\* missing file).
Readable(files, p) == p \in DOMAIN files

----------------------------------------------------------------------------
(* Query parameters and the cache key.                                     *)

Digits == <<"0", "1", "2", "3", "4", "5", "6", "7", "8", "9">>

IsDigit(c) == \E i \in 1..10 : Digits[i] = c

DigitValue(c) == (CHOOSE i \in 1..10 : Digits[i] = c) - 1

RECURSIVE DecimalValue(_)
DecimalValue(s) ==
    IF s = <<>> THEN 0
    ELSE 10 * DecimalValue(SubSeq(s, 1, Len(s) - 1)) + DigitValue(s[Len(s)])

\* Number(raw) for the decimal integers; every other text, and a parameter
\* that is absent, is NaN. The empty string is 0.
Number(raw) ==
    LET neg == raw # <<>> /\ raw[1] = "-"
        digits == IF neg THEN Tail(raw) ELSE raw
    IN  IF raw = UNDEFINED THEN [nan |-> TRUE, val |-> 0]
        ELSE IF raw = <<>> THEN [nan |-> FALSE, val |-> 0]
        ELSE IF digits # <<>> /\ \A i \in 1..Len(digits) : IsDigit(digits[i])
          THEN [nan |-> FALSE, val |-> IF neg THEN 0 - DecimalValue(digits)
                                                ELSE DecimalValue(digits)]
        ELSE [nan |-> TRUE, val |-> 0]

\* Number(raw) || fallback. A width or height of 0 stands for undefined: the
\* code tests both only for truthiness.
NumberOr(raw, fallback) ==
    LET n == Number(raw)
    IN  IF n.nan \/ n.val = 0 THEN fallback ELSE n.val

RECURSIVE NatString(_)
NatString(n) ==
    IF n < 10 THEN <<Digits[n + 1]>>
    ELSE NatString(n \div 10) \o <<Digits[(n % 10) + 1]>>

\* String(n)
NumberString(n) == IF n < 0 THEN <<"-">> \o NatString(0 - n) ELSE NatString(n)

\* The sources a request can name once normalized, in the order that numbers
\* their digests.
KnownSources ==
    << PublicImage, OutsideImage, BundledAsset, BesideAssets, RemoteUrl,
       <<"/", "p", "/", "x">>,
       <<"/", "p", "/", "x", "?", "v">>,
       <<"/", "p", "/", "n">>,
       <<".", ".", "/", "r", "b", "/", "x">>,
       <<".", ".", "/", ".", ".", "/", "e">>,
       <<"/", "x">>,
       <<"/", "x", "?", "v">>,
       <<"?", "v">>,
       <<"/", "n">>,
       AssetsPrefix \o <<"x">>,
       <<".", ".", "/", "p", "q", "/", "x">>,
       RemoteUrlQuery >>

HexDigits == <<"0", "1", "2", "3", "4", "5", "6", "7", "8", "9", "a", "b", "c", "d", "e", "f">>

\* crypto.createHash('md5').update(source).digest('hex'): a digest in hex
\* digits, different for different sources (no two sources of the model
\* collide).
Md5Hex(source) ==
    LET i == CHOOSE k \in 1..Len(KnownSources) : KnownSources[k] = source
    IN  <<HexDigits[((i - 1) \div 16) + 1], HexDigits[((i - 1) % 16) + 1]>>

Auto == <<"a", "u", "t", "o">>

Webp == <<"w", "e", "b", "p">>

Png == <<"p", "n", "g">>

\* The default quality of generateCacheKey and of the handler.
DefaultQuality == 80

\* A key derived without the quality.
generateCacheKeyNoQuality(source, width, height, quality, format) ==
    Md5Hex(source)
    \o <<"-">> \o (IF width # 0 THEN NumberString(width) ELSE Auto)
    \o <<"x">> \o (IF height # 0 THEN NumberString(height) ELSE Auto)
    \o <<".">> \o (IF Truthy(format) THEN format ELSE Webp)

\* generateCacheKey
generateCacheKey(source, width, height, quality, format) ==
    Md5Hex(source)
    \o <<"-">> \o (IF width # 0 THEN NumberString(width) ELSE Auto)
    \o <<"x">> \o (IF height # 0 THEN NumberString(height) ELSE Auto)
    \o <<"-", "q">> \o NumberString(IF quality # 0 THEN quality ELSE DefaultQuality)
    \o <<".">> \o (IF Truthy(format) THEN format ELSE Webp)

----------------------------------------------------------------------------
(* sharp.                                                                  *)

\* The formats toFormat accepts.
SharpFormats ==
    { Webp, Png, <<"j", "p", "e", "g">>, <<"j", "p", "g">>, <<"a", "v", "i", "f">>,
      <<"g", "i", "f">> }

\* The input decodes: the complete bytes of one image.
Decodes(bytes) ==
    /\ Len(bytes) = FullLen
    /\ bytes = Bytes(bytes[1].of)
    /\ bytes[1].of.img \in DOMAIN ImageSize

\* a / b rounded to the nearest integer, at least 1.
RoundDiv(a, b) ==
    LET q == (2 * a + b) \div (2 * b)
    IN  IF q < 1 THEN 1 ELSE q

\* A resize without withoutEnlargement: the image is scaled up too.
resizeEnlarging(w0, h0, width, height) ==
    LET byWidth == height = 0 \/ (width # 0 /\ w0 * height >= h0 * width)
    IN  IF byWidth
          THEN <<width, RoundDiv(h0 * width, w0)>>
          ELSE <<RoundDiv(w0 * height, h0), height>>

\* resize(width, height, {fit: 'inside', withoutEnlargement: true}) of a
\* w0 x h0 image: the size of the output. One shrink factor, the larger of
\* w0/width and h0/height and never below 1, is applied to both axes.
resize(w0, h0, width, height) ==
    LET byWidth == height = 0 \/ (width # 0 /\ w0 * height >= h0 * width)
    IN  IF byWidth
          THEN IF width >= w0 THEN <<w0, h0>> ELSE <<width, RoundDiv(h0 * width, w0)>>
          ELSE IF height >= h0 THEN <<w0, h0>> ELSE <<RoundDiv(w0 * height, h0), height>>

\* resize throws on a width or height that is no positive integer.
ResizeThrows(width, height) == width < 0 \/ height < 0

\* toFormat throws on a format sharp does not know and on a quality outside
\* 1..100.
ToFormatThrows(format, quality) ==
    format \notin SharpFormats \/ quality < 1 \/ quality > 100

----------------------------------------------------------------------------
(* Detection of the images directory.                                      *)

\* The directories searched: the working directory and its ancestors, the
\* file system's root left out.
RECURSIVE UpwardDirs(_)
UpwardDirs(dir) ==
    IF dir = <<"/">> THEN <<>> ELSE <<dir>> \o UpwardDirs(Dirname(dir))

\* Everything find can print: the files and the directories above them.
FindCandidates(files) ==
    DOMAIN files \cup UNION {AncestorsOf(f) : f \in DOMAIN files}

\* find "$dir" -path "*$(dirname "$input")*" -name "$(basename "$input")"
FindIn(files, dir, input) ==
    {f \in FindCandidates(files) :
        /\ IsInside(f, dir)
        /\ Basename(f) = Basename(input)
        /\ IndexOf(f, Dirname(input)) # 0}

\* The lines the loop echoes: those of the first directory, going upward, in
\* which find prints anything.
FoundLines(files, input) ==
    LET dirs == UpwardDirs(Cwd)
        hits == {i \in 1..Len(dirs) : FindIn(files, dirs[i], input) # {}}
    IN  IF hits = {} THEN {}
        ELSE FindIn(files, dirs[CHOOSE i \in hits : \A j \in hits : i <= j], input)

\* The orders find can print a set of lines in.
Orderings(S) ==
    {o \in [1..Cardinality(S) -> S] : \A i, j \in 1..Cardinality(S) : o[i] = o[j] => i = j}

\* detectImagesLocalDir: the values it can return for srcPath. The order of
\* find's lines is the directory order; a failure of the shell command (its
\* 5 s timeout, a missing bash) returns null through the catch.
detectImagesLocalDir(files, srcPath) ==
    LET lines == FoundLines(files, srcPath)
        normalizedSrc == IF StartsWith(srcPath, <<"/">>) THEN srcPath ELSE <<"/">> \o srcPath
        Returned(result) ==
            IF result = <<>> THEN NULL
            ELSE LET srcIndex == IndexOf(result, normalizedSrc)
                 IN  IF srcIndex # 0 THEN SubSeq(result, 1, srcIndex - 1) ELSE NULL
    IN  {NULL} \cup {Returned(Join(o, "\n")) : o \in Orderings(lines)}

----------------------------------------------------------------------------
(* The requests.                                                           *)

Query(src, width, height, quality, format) ==
    [src |-> src, width |-> width, height |-> height, quality |-> quality,
     format |-> format]

\* A format that climbs out of the cache directory to OutsideImage.
ClimbingFormat == <<"/", ".", ".", "/", ".", ".", "/", "r", "b", "/", "x">>

\* The requests a client sends to the root-detecting middleware.
AutoQueries ==
    { Query(<<"/", "p", "/", "x">>, UNDEFINED, UNDEFINED, UNDEFINED, UNDEFINED),
      Query(<<"/", "p", "/", "x", "?", "v">>, UNDEFINED, UNDEFINED, UNDEFINED, UNDEFINED),
      Query(<<"/", "p", "/", "x">>, <<"2">>, UNDEFINED, UNDEFINED, Png),
      Query(<<"/", "p", "/", "x">>, UNDEFINED, UNDEFINED, UNDEFINED, ClimbingFormat),
      Query(<<"/", "p", "/", "n">>, UNDEFINED, UNDEFINED, UNDEFINED, UNDEFINED),
      Query(<<".", ".", "/", "r", "b", "/", "x">>, UNDEFINED, UNDEFINED, UNDEFINED, UNDEFINED),
      Query(<<".", ".", "/", ".", ".", "/", "e">>, UNDEFINED, UNDEFINED, UNDEFINED, UNDEFINED),
      Query(RemoteUrl, UNDEFINED, UNDEFINED, UNDEFINED, UNDEFINED),
      Query(RemoteUrlQuery, UNDEFINED, UNDEFINED, UNDEFINED, UNDEFINED),
      Query(<<"?", "v">>, UNDEFINED, UNDEFINED, UNDEFINED, UNDEFINED),
      Query(UNDEFINED, UNDEFINED, UNDEFINED, UNDEFINED, UNDEFINED) }

\* The requests a client sends to the middleware configured with assetsDir.
ConfiguredQueries ==
    { Query(<<"/", "x">>, UNDEFINED, UNDEFINED, UNDEFINED, UNDEFINED),
      Query(<<"/", "x", "?", "v">>, UNDEFINED, UNDEFINED, UNDEFINED, UNDEFINED),
      Query(<<"/", "x">>, <<"2">>, UNDEFINED, UNDEFINED, Png),
      Query(<<"/", "x">>, UNDEFINED, UNDEFINED, UNDEFINED, ClimbingFormat),
      Query(<<"/", "n">>, UNDEFINED, UNDEFINED, UNDEFINED, UNDEFINED),
      Query(AssetsPrefix \o <<"x">>, UNDEFINED, UNDEFINED, UNDEFINED, UNDEFINED),
      Query(<<".", ".", "/", "p", "q", "/", "x">>, UNDEFINED, UNDEFINED, UNDEFINED, UNDEFINED),
      Query(<<".", ".", "/", ".", ".", "/", "e">>, UNDEFINED, UNDEFINED, UNDEFINED, UNDEFINED),
      Query(RemoteUrl, UNDEFINED, UNDEFINED, UNDEFINED, UNDEFINED),
      Query(RemoteUrlQuery, UNDEFINED, UNDEFINED, UNDEFINED, UNDEFINED),
      Query(<<>>, UNDEFINED, UNDEFINED, UNDEFINED, UNDEFINED),
      Query(UNDEFINED, UNDEFINED, UNDEFINED, UNDEFINED, UNDEFINED) }

Queries(v) == IF v = "auto" THEN AutoQueries ELSE ConfiguredQueries

\* A request that has not arrived.
Idle ==
    [pc |-> "idle",
     q |-> Query(UNDEFINED, UNDEFINED, UNDEFINED, UNDEFINED, UNDEFINED),
     src |-> UNDEFINED, width |-> 0, height |-> 0, quality |-> 0, format |-> UNDEFINED,
     cacheFilePath |-> <<>>, imageBuffer |-> <<>>,
     resizeWidth |-> 0, resizeHeight |-> 0,
     opened |-> FALSE, pos |-> 0, out |-> Hole,
     status |-> 0, text |-> "", body |-> <<>>, contentType |-> <<>>,
     log |-> <<>>]

\* The handler calls `op` on `arg`; `what` is the file's role.
Log(rq, op, what, arg) ==
    [rq EXCEPT !.log = Append(@, [op |-> op, what |-> what, arg |-> arg])]

\* c.text(text, status)
RespondText(rq, status, text) ==
    [rq EXCEPT !.pc = "done", !.status = status, !.text = text]

\* config.headers when the configuration names none.
NoHeaders == [name \in {} |-> <<>>]

\* config.cacheControl (the default, shortened).
CacheControl == <<"p", "u", "b", "l", "i", "c">>

TextHtml == <<"t", "e", "x", "t", "/", "h", "t", "m", "l">>

\* The maps config.headers can hold: none, a header of the application, and
\* one named Content-Type.
HeaderMaps ==
    { NoHeaders,
      "X-Served-By" :> <<"a", "p", "p">>,
      "Content-Type" :> TextHtml }

\* `image/${format}`
ImageType(format) == <<"i", "m", "a", "g", "e", "/">> \o format

\* { 'Content-Type': ..., 'Cache-Control': cacheControl, ...headers }: a key
\* of the spread replaces the value written before it.
ResponseHeaders(extra, format) ==
    extra @@ ("Content-Type" :> ImageType(format)) @@ ("Cache-Control" :> CacheControl)

\* c.body(bytes, 200, responseHeaders)
RespondBody(rq, bytes) ==
    [rq EXCEPT !.pc = "done", !.status = 200, !.body = bytes,
               !.contentType = ResponseHeaders(headers, rq.format)["Content-Type"]]

\* A handler without its catch block: the exception leaves it.
Uncaught(rq) == [rq EXCEPT !.pc = "thrown"]

\* A catch block that answers with the message of the exception, here the
\* one fetchExternalImage throws with the upstream status text.
CaughtLeaking(rq) == RespondText(rq, 500, "Failed to fetch image: Not Found 404")

\* The catch block of the handler.
Caught(rq) == RespondText(rq, 500, "Internal Server Error")

----------------------------------------------------------------------------
(* The handler, in the pieces that run between two awaits.                 *)

\* The parameters read without stripping the query string of a local src.
ParseParamsKeepQuery(v, q) ==
    [Idle EXCEPT
       !.q = q,
       !.src = q.src,
       !.width = NumberOr(q.width, 0),
       !.height = NumberOr(q.height, 0),
       !.quality = NumberOr(q.quality, DefaultQuality),
       !.format = IF Truthy(q.format) THEN q.format ELSE Webp]

\* The parameters as the handler reads them from the query. Only the
\* root-detecting middleware strips the query string of a local src.
ParseParams(v, q) ==
    [Idle EXCEPT
       !.q = q,
       !.src = IF v = "auto"
                 THEN IF Truthy(q.src)
                        THEN IF isUrl(q.src) THEN q.src ELSE Split(q.src, "?")[1]
                        ELSE UNDEFINED
                 ELSE q.src,
       !.width = NumberOr(q.width, 0),
       !.height = NumberOr(q.height, 0),
       !.quality = NumberOr(q.quality, DefaultQuality),
       !.format = IF Truthy(q.format) THEN q.format ELSE Webp]

\* image.toFormat(format, { quality }) and the call of image.toFile.
EncodeAndStore(rq) ==
    IF ToFormatThrows(rq.format, rq.quality) THEN Caught(rq)
    ELSE [Log(rq, "toFile", "cache", rq.cacheFilePath) EXCEPT
            !.pc = "toFile", !.opened = FALSE, !.pos = 0]

\* image.resize(resizeWidth, resizeHeight, ...) and what follows it.
ResizeAndStore(rq, resizeWidth, resizeHeight) ==
    LET rq1 == [rq EXCEPT !.resizeWidth = resizeWidth, !.resizeHeight = resizeHeight]
    IN  IF ResizeThrows(resizeWidth, resizeHeight) THEN Caught(rq1)
        ELSE EncodeAndStore(rq1)

\* From sharp(imageBuffer) to the next await.
Transform(v, rq, imageBuffer) ==
    With([Log(rq, "sharp", "source", <<>>) EXCEPT !.imageBuffer = imageBuffer],
         LAMBDA rq1 :
           IF rq1.width # 0 \/ rq1.height # 0
             THEN IF v = "auto"
                    THEN [rq1 EXCEPT !.pc = "metadata"]
                    ELSE ResizeAndStore(rq1, rq1.width, rq1.height)
             ELSE EncodeAndStore(rq1))

\* A handler that hands both dimensions to resize, whatever the metadata.
AfterMetadataBoth(rq) ==
    IF ~Decodes(rq.imageBuffer) THEN Caught(rq)
    ELSE ResizeAndStore(rq, rq.width, rq.height)

\* The choice of the constraining dimension once the metadata is there.
AfterMetadata(rq) ==
    IF ~Decodes(rq.imageBuffer) THEN Caught(rq)
    ELSE LET originalWidth == rq.imageBuffer[1].of.w
             originalHeight == rq.imageBuffer[1].of.h
             width == rq.width
             height == rq.height
             \* originalWidth / originalHeight < width / height
             morePortrait == IF height > 0
                               THEN originalWidth * height < width * originalHeight
                               ELSE originalWidth * height > width * originalHeight
         IN  IF width # 0 /\ height # 0 /\ originalWidth # 0 /\ originalHeight # 0
               THEN IF morePortrait
                      THEN ResizeAndStore(rq, width, 0)
                      ELSE ResizeAndStore(rq, 0, height)
               ELSE ResizeAndStore(rq, width, height)

\* The existence check and the read of the source file.
ReadSource(v, files, rq, resolvedPath) ==
    LET rq1 == Log(rq, "existsSync", "source", resolvedPath)
    IN  IF ~existsSync(files, resolvedPath)
          THEN RespondText(rq1, 404, "Image file not found")
        ELSE With(Log(rq1, "readFileSync", "source", resolvedPath), LAMBDA rq2 :
               IF ~Readable(files, resolvedPath) THEN Caught(rq2)
               ELSE Transform(v, rq2, files[resolvedPath]))

\* The local branch of the root-detecting middleware, after the detection.
LocalSource(files, rq, dir) ==
    IF ~Truthy(dir)
      THEN RespondText(rq, 404, "Failed to detect images directory. Image not found.")
    ELSE With(resolveLocalImagePath(rq.src, dir), LAMBDA resolvedPath :
           LET rq1 == Log(rq, "resolve", "source", rq.src)
           IN  IF ~Truthy(resolvedPath)
                 THEN RespondText(rq1, 403,
                                  "Invalid image path (security: path traversal blocked)")
               ELSE ReadSource("auto", files, rq1, resolvedPath))

\* The local branch of the configured middleware.
ConfiguredSource(files, rq) ==
    With(resolveLocalImagePathIn(rq.src, ProjectRoot, AssetsDir), LAMBDA resolvedPath :
      LET rq1 == Log(rq, "resolve", "source", rq.src)
      IN  IF ~Truthy(resolvedPath)
            THEN RespondText(rq1, 403,
                             "Invalid image path (security: path traversal blocked)")
          ELSE ReadSource("configured", files, rq1, resolvedPath))

\* A cache lookup that computes the path and never serves the file.
CacheLookupMiss(files, rq) ==
    With(pathJoin(CacheDir,
                  generateCacheKey(rq.src, rq.width, rq.height, rq.quality, rq.format)),
         LAMBDA cacheFilePath :
           Log([rq EXCEPT !.cacheFilePath = cacheFilePath],
               "existsSync", "cache", cacheFilePath))

\* The cache lookup: the response of a hit, or the request as it stands on a
\* miss with the path of its cache file set.
CacheLookup(files, rq) ==
    With(pathJoin(CacheDir,
                  generateCacheKey(rq.src, rq.width, rq.height, rq.quality, rq.format)),
         LAMBDA cacheFilePath :
           LET rq1 == Log([rq EXCEPT !.cacheFilePath = cacheFilePath],
                          "existsSync", "cache", cacheFilePath)
               rq2 == Log(rq1, "readFileSync", "cache", cacheFilePath)
           IN  IF existsSync(files, cacheFilePath)
                 THEN IF Readable(files, cacheFilePath)
                        THEN RespondBody(rq2, files[cacheFilePath])
                        ELSE Caught(rq2)
                 ELSE rq1)

\* A handler that sets the flag only when the detection succeeded, and so
\* detects again after a failure.
ArriveRetrying(v, files, dir, wasDetected, q, found) ==
    With(ParseParams(v, q), LAMBDA rq0 :
      LET Unchanged(rq) == [rq |-> rq, imagesLocalDir |-> dir,
                            imagesLocalDirDetected |-> wasDetected]
      IN  IF ~Truthy(rq0.src)
            THEN Unchanged(RespondText(rq0, 400, "Missing src parameter"))
          ELSE With(CacheLookup(files, rq0), LAMBDA rq1 :
            IF rq1.pc = "done" THEN Unchanged(rq1)
            ELSE IF isUrl(rq1.src)
              THEN Unchanged([Log(rq1, "fetch", "source", rq1.src) EXCEPT !.pc = "fetch"])
            ELSE IF v = "auto"
              THEN IF ~wasDetected
                     THEN With(IF Truthy(found) THEN found ELSE dir, LAMBDA dir1 :
                            [rq |-> LocalSource(files,
                                                Log(rq1, "find", "source", rq1.src),
                                                dir1),
                             imagesLocalDir |-> dir1,
                             imagesLocalDirDetected |-> Truthy(found)])
                     ELSE Unchanged(LocalSource(files, rq1, dir))
            ELSE Unchanged(ConfiguredSource(files, rq1))))

\* The handler from the arrival of the request to its first await, or to its
\* response: the request and the two variables of the instance afterwards.
\* `found` is what detectImagesLocalDir returns if the handler calls it.
Arrive(v, files, dir, wasDetected, q, found) ==
    With(ParseParams(v, q), LAMBDA rq0 :
      LET Unchanged(rq) == [rq |-> rq, imagesLocalDir |-> dir,
                            imagesLocalDirDetected |-> wasDetected]
      IN  IF ~Truthy(rq0.src)
            THEN Unchanged(RespondText(rq0, 400, "Missing src parameter"))
          ELSE With(CacheLookup(files, rq0), LAMBDA rq1 :
            IF rq1.pc = "done" THEN Unchanged(rq1)
            ELSE IF isUrl(rq1.src)
              THEN Unchanged([Log(rq1, "fetch", "source", rq1.src) EXCEPT !.pc = "fetch"])
            ELSE IF v = "auto"
              THEN IF ~wasDetected
                     THEN With(IF Truthy(found) THEN found ELSE dir, LAMBDA dir1 :
                            [rq |-> LocalSource(files,
                                                Log(rq1, "find", "source", rq1.src),
                                                dir1),
                             imagesLocalDir |-> dir1,
                             imagesLocalDirDetected |-> TRUE])
                     ELSE Unchanged(LocalSource(files, rq1, dir))
            ELSE Unchanged(ConfiguredSource(files, rq1))))

----------------------------------------------------------------------------
(* The actions.                                                            *)

Requests == 1..MaxReqs

NoCall == [fn |-> "none"]

Init ==
    /\ variant \in {"auto", "configured"}
    /\ headers = NoHeaders
    /\ image = NotRendered
    /\ imagesLocalDir = UNDEFINED
    /\ imagesLocalDirDetected = FALSE
    /\ fs = InitialFiles
    /\ reqs = [r \in Requests |-> Idle]
    /\ call = NoCall
    /\ ret = NoCall

\* A request arrives and runs to its first await or to its response.
Request(r) ==
    /\ reqs[r].pc = "idle"
    /\ IF r = 1 THEN TRUE ELSE reqs[r - 1].pc # "idle"
    /\ \E q \in Queries(variant) :
         \E found \in (IF variant = "auto" /\ ~imagesLocalDirDetected
                         THEN detectImagesLocalDir(fs, ParseParams(variant, q).src)
                         ELSE {NULL}) :
           \E a \in {Arrive(variant, fs, imagesLocalDir, imagesLocalDirDetected,
                             q, found)} :
             /\ reqs' = [reqs EXCEPT ![r] = a.rq]
             /\ imagesLocalDir' = a.imagesLocalDir
             /\ imagesLocalDirDetected' = a.imagesLocalDirDetected
    /\ UNCHANGED <<variant, headers, image, fs, call, ret>>

\* fetchExternalImage returns the bytes of the remote image.
FetchOk(r) ==
    /\ reqs[r].pc = "fetch"
    /\ reqs' = [reqs EXCEPT ![r] = Transform(variant, reqs[r], Bytes(SourceBlob("imgU")))]
    /\ UNCHANGED <<variant, headers, image, imagesLocalDir, imagesLocalDirDetected, fs, call, ret>>

\* A failing fetch that leaves an empty cache file behind.
FetchFailStoring(r) ==
    /\ reqs[r].pc = "fetch"
    /\ reqs' = [reqs EXCEPT ![r] = Caught(reqs[r])]
    /\ fs' = [p \in DOMAIN fs \cup {reqs[r].cacheFilePath} |->
                IF p = reqs[r].cacheFilePath THEN <<>> ELSE fs[p]]
    /\ UNCHANGED <<variant, headers, image, imagesLocalDir, imagesLocalDirDetected, call, ret>>

\* fetchExternalImage throws: the response is not ok, or the transport fails.
FetchFail(r) ==
    /\ reqs[r].pc = "fetch"
    /\ reqs' = [reqs EXCEPT ![r] = Caught(reqs[r])]
    /\ UNCHANGED <<variant, headers, image, imagesLocalDir, imagesLocalDirDetected, fs, call, ret>>

\* image.metadata() settles.
Metadata(r) ==
    /\ reqs[r].pc = "metadata"
    /\ reqs' = [reqs EXCEPT ![r] = AfterMetadata(reqs[r])]
    /\ UNCHANGED <<variant, headers, image, imagesLocalDir, imagesLocalDirDetected, fs, call, ret>>

\* The encoded output of a request's pipeline.
Encoded(rq) ==
    LET in == rq.imageBuffer[1].of
        size == IF rq.resizeWidth # 0 \/ rq.resizeHeight # 0
                  THEN resize(in.w, in.h, rq.resizeWidth, rq.resizeHeight)
                  ELSE <<in.w, in.h>>
    IN  Blob(in.img, size[1], size[2], rq.quality, rq.format)

\* toFile opens the output file, creating or truncating it; an input that
\* does not decode rejects the promise before that.
ToFileOpen(r) ==
    /\ reqs[r].pc = "toFile"
    /\ ~reqs[r].opened
    /\ IF Decodes(reqs[r].imageBuffer)
         THEN /\ fs' = [p \in DOMAIN fs \cup {reqs[r].cacheFilePath} |->
                          IF p = reqs[r].cacheFilePath THEN <<>> ELSE fs[p]]
              /\ reqs' = [reqs EXCEPT ![r].opened = TRUE, ![r].pos = 0,
                                      ![r].out = Encoded(reqs[r])]
         ELSE /\ reqs' = [reqs EXCEPT ![r] = Caught(reqs[r])]
              /\ fs' = fs
    /\ UNCHANGED <<variant, headers, image, imagesLocalDir, imagesLocalDirDetected, call, ret>>

\* The file after a write of `block` at offset `pos`: the blocks between the
\* end of the file and the offset read as zeros.
WriteAt(bytes, pos, block) ==
    [i \in 1..(IF Len(bytes) > pos + 1 THEN Len(bytes) ELSE pos + 1) |->
        IF i = pos + 1 THEN block
        ELSE IF i <= Len(bytes) THEN bytes[i]
        ELSE [of |-> Hole, part |-> 0]]

\* toFile writes the next block of the output at its own offset.
ToFileWrite(r) ==
    /\ reqs[r].pc = "toFile"
    /\ reqs[r].opened
    /\ reqs[r].pos < FullLen
    /\ fs' = [fs EXCEPT ![reqs[r].cacheFilePath] =
                WriteAt(@, reqs[r].pos, Bytes(reqs[r].out)[reqs[r].pos + 1])]
    /\ reqs' = [reqs EXCEPT ![r].pos = @ + 1]
    /\ UNCHANGED <<variant, headers, image, imagesLocalDir, imagesLocalDirDetected, call, ret>>

\* toFile rejects: the open or a write fails (no space, no permission).
ToFileFail(r) ==
    /\ reqs[r].pc = "toFile"
    /\ reqs' = [reqs EXCEPT ![r] =
                  Caught(Log(reqs[r], "toFile rejected", "cache", reqs[r].cacheFilePath))]
    /\ UNCHANGED <<variant, headers, image, imagesLocalDir, imagesLocalDirDetected, fs, call, ret>>

\* toFile resolves: the handler reads the cache file back and responds.
ToFileDone(r) ==
    /\ reqs[r].pc = "toFile"
    /\ reqs[r].opened
    /\ reqs[r].pos = FullLen
    /\ reqs' = [reqs EXCEPT ![r] =
                  RespondBody(Log(reqs[r], "readFileSync", "cache", reqs[r].cacheFilePath),
                              fs[reqs[r].cacheFilePath])]
    /\ UNCHANGED <<variant, headers, image, imagesLocalDir, imagesLocalDirDetected, fs, call, ret>>

Next ==
    \E r \in Requests :
        \/ Request(r)
        \/ FetchOk(r)
        \/ FetchFail(r)
        \/ Metadata(r)
        \/ ToFileOpen(r)
        \/ ToFileWrite(r)
        \/ ToFileFail(r)
        \/ ToFileDone(r)

Spec == Init /\ [][Next]_vars

\* The instances built with each of the header maps.
InitHeaders ==
    /\ variant \in {"auto", "configured"}
    /\ headers \in HeaderMaps
    /\ image = NotRendered
    /\ imagesLocalDir = UNDEFINED
    /\ imagesLocalDirDetected = FALSE
    /\ fs = InitialFiles
    /\ reqs = [r \in Requests |-> Idle]
    /\ call = NoCall
    /\ ret = NoCall

SpecHeaders == InitHeaders /\ [][Next]_vars

\* The same handler with the requests served one after the other: a request
\* arrives only when every earlier one has been answered.
RequestAlone(r) ==
    /\ \A k \in Requests : reqs[k].pc \in {"idle", "done"}
    /\ Request(r)

NextSeq ==
    \E r \in Requests :
        \/ RequestAlone(r)
        \/ FetchOk(r)
        \/ FetchFail(r)
        \/ Metadata(r)
        \/ ToFileOpen(r)
        \/ ToFileWrite(r)
        \/ ToFileFail(r)
        \/ ToFileDone(r)

SpecSeq == Init /\ [][NextSeq]_vars

----------------------------------------------------------------------------
(* resolveLocalImagePath on its own: every raw path up to MaxRawLen         *)
(* characters against a few roots.                                          *)

PathChars == {"/", ".", "a", "b"}

RawPaths == UNION {[1..n -> PathChars] : n \in 0..MaxRawLen}

ResolveRoots == { <<"/", "a">>, <<"/", "a", "/", "b">> }

ResolveCalls ==
    [fn : {"resolveLocalImagePath"}, relativePath : RawPaths, dir : ResolveRoots,
     projectRoot : {<<>>}]
    \cup
    [fn : {"resolveLocalImagePathIn"},
     relativePath : RawPaths \cup {AssetsPrefix \o t : t \in RawPaths},
     dir : ResolveRoots, projectRoot : {<<"/", "b">>}]

InitResolve ==
    /\ variant = "auto"
    /\ headers = NoHeaders
    /\ image = NotRendered
    /\ imagesLocalDir = UNDEFINED
    /\ imagesLocalDirDetected = FALSE
    /\ fs = InitialFiles
    /\ reqs = [r \in Requests |-> Idle]
    /\ call \in ResolveCalls
    /\ ret = NoCall

CallResolveLocalImagePath ==
    /\ ret = NoCall
    /\ call.fn = "resolveLocalImagePath"
    /\ ret' = [fn |-> call.fn,
               value |-> resolveLocalImagePath(call.relativePath, call.dir)]
    /\ UNCHANGED <<variant, headers, image, imagesLocalDir, imagesLocalDirDetected, fs, reqs, call>>

CallResolveLocalImagePathIn ==
    /\ ret = NoCall
    /\ call.fn = "resolveLocalImagePathIn"
    /\ ret' = [fn |-> call.fn,
               value |-> resolveLocalImagePathIn(call.relativePath, call.projectRoot,
                                                 call.dir)]
    /\ UNCHANGED <<variant, headers, image, imagesLocalDir, imagesLocalDirDetected, fs, reqs, call>>

NextResolve == CallResolveLocalImagePath \/ CallResolveLocalImagePathIn

SpecResolve == InitResolve /\ [][NextResolve]_vars

----------------------------------------------------------------------------
(* generateCacheKey on its own: two calls whose arguments differ in at      *)
(* most one of width, height, quality and format.                           *)

\* Widths and heights: 0 stands for the absent one.
KeyNumbers == {0, 1, 2, 10, 12, -1}

\* Qualities: 0 stands for the absent one.
KeyQualities == {0, 8, 80, 100}

KeyFormats == {UNDEFINED, <<>>, Webp, Png, <<"p", "-", "q", "8">>}

KeyArgs ==
    [source : {<<"/", "p", "/", "x">>, RemoteUrl}, width : KeyNumbers,
     height : KeyNumbers, quality : KeyQualities, format : KeyFormats]

\* The arguments that differ from `a` in at most one of the four.
OneChanged(a) ==
    {[a EXCEPT !.width = w] : w \in KeyNumbers}
    \cup {[a EXCEPT !.height = h] : h \in KeyNumbers}
    \cup {[a EXCEPT !.quality = q] : q \in KeyQualities}
    \cup {[a EXCEPT !.format = f] : f \in KeyFormats}

InitKey ==
    /\ variant = "auto"
    /\ headers = NoHeaders
    /\ image = NotRendered
    /\ imagesLocalDir = UNDEFINED
    /\ imagesLocalDirDetected = FALSE
    /\ fs = InitialFiles
    /\ reqs = [r \in Requests |-> Idle]
    /\ \E a \in KeyArgs : \E b \in OneChanged(a) :
          call = [fn |-> "generateCacheKey", a |-> a, b |-> b]
    /\ ret = NoCall

KeyOf(a) == generateCacheKey(a.source, a.width, a.height, a.quality, a.format)

CallGenerateCacheKey ==
    /\ ret = NoCall
    /\ call.fn = "generateCacheKey"
    /\ ret' = [fn |-> call.fn, value |-> <<KeyOf(call.a), KeyOf(call.b)>>]
    /\ UNCHANGED <<variant, headers, image, imagesLocalDir, imagesLocalDirDetected, fs, reqs, call>>

NextKey == CallGenerateCacheKey

SpecKey == InitKey /\ [][NextKey]_vars

----------------------------------------------------------------------------
(* The resize step on its own: a request for a remote image of every size  *)
(* up to MaxSide, with every requested width and height up to MaxSide + 1.  *)

\* The requested widths and heights: 0 stands for the absent parameter.
Sides == {-1} \cup (0..(MaxSide + 1))

\* The query parameter that asks for n.
RawNumber(n) == IF n = 0 THEN UNDEFINED ELSE NumberString(n)

ResizeCalls ==
    [fn : {"fetch"}, w0 : 1..MaxSide, h0 : 1..MaxSide, width : Sides, height : Sides]

\* The request for the remote image has arrived and awaits its fetch.
InitResize ==
    /\ variant \in {"auto", "configured"}
    /\ headers = NoHeaders
    /\ image = NotRendered
    /\ imagesLocalDir = UNDEFINED
    /\ imagesLocalDirDetected = FALSE
    /\ fs = InitialFiles
    /\ call \in ResizeCalls
    /\ reqs = [r \in Requests |->
                 IF r = 1
                   THEN Arrive(variant, InitialFiles, UNDEFINED, FALSE,
                               Query(RemoteUrl, RawNumber(call.width),
                                     RawNumber(call.height), UNDEFINED, UNDEFINED),
                               NULL).rq
                   ELSE Idle]
    /\ ret = NoCall

\* fetchExternalImage returns an image of the size the run is about.
FetchSized(r) ==
    /\ reqs[r].pc = "fetch"
    /\ reqs' = [reqs EXCEPT ![r] =
                  Transform(variant, reqs[r],
                            Bytes(Blob("imgU", call.w0, call.h0, 0, <<>>)))]
    /\ UNCHANGED <<variant, headers, image, imagesLocalDir, imagesLocalDirDetected, fs, call, ret>>

NextResize ==
    \E r \in Requests :
        \/ FetchSized(r)
        \/ Metadata(r)
        \/ ToFileOpen(r)
        \/ ToFileWrite(r)
        \/ ToFileFail(r)
        \/ ToFileDone(r)

SpecResize == InitResize /\ [][NextResize]_vars

----------------------------------------------------------------------------
(* The Image component of README.md, with the img element it renders and   *)
(* the browser that loads the element's src.                               *)

\* The request handler and the pure functions take no part.
Others == <<variant, headers, imagesLocalDir, imagesLocalDirDetected, fs, reqs, call, ret>>

InitImage ==
    /\ variant = "auto"
    /\ headers = NoHeaders
    /\ image \in {[NotRendered EXCEPT !.props = p] : p \in SUBSET {"onLoad", "onError"}}
    /\ imagesLocalDir = UNDEFINED
    /\ imagesLocalDirDetected = FALSE
    /\ fs = InitialFiles
    /\ reqs = [r \in Requests |-> Idle]
    /\ call = NoCall
    /\ ret = NoCall

\* The server renders the component: the img element reaches the browser in
\* the HTML and starts to load, with no listener of React attached yet.
RenderOnServer ==
    /\ image.phase = "none"
    /\ image' = [image EXCEPT !.phase = "html", !.img = "loading"]
    /\ UNCHANGED Others

\* The effect that runs once after the mount.
MountEffect(c) ==
    LET c1 == [c EXCEPT !.phase = "mounted", !.isMounted = TRUE]
    IN  IF c.img = "absent" THEN c1
        ELSE IF c.img = "complete" THEN [c1 EXCEPT !.isLoaded = TRUE]
        ELSE c1

\* The browser renders the component itself: the element is created with
\* its listeners and starts to load; then the effect runs.
RenderOnClient ==
    /\ image.phase = "none"
    /\ image' = MountEffect([image EXCEPT !.img = "loading"])
    /\ UNCHANGED Others

\* React hydrates the server's HTML: the listeners are attached to the
\* element as it is, and the effect runs.
Hydrate ==
    /\ image.phase = "html"
    /\ image' = MountEffect(image)
    /\ UNCHANGED Others

\* The browser has loaded the src: the element is complete, and its load
\* event is queued for the listeners attached by now; without them it is lost.
BrowserLoads ==
    /\ image.img = "loading"
    /\ image' = [image EXCEPT !.img = "complete",
                              !.event = IF image.phase = "mounted" THEN "load" ELSE "none"]
    /\ UNCHANGED Others

\* The browser could not load the src: the element is complete with a
\* naturalHeight of 0, and its error event is queued likewise.
BrowserFails ==
    /\ image.img = "loading"
    /\ image' = [image EXCEPT !.img = "broken",
                              !.event = IF image.phase = "mounted" THEN "error" ELSE "none"]
    /\ UNCHANGED Others

\* handleLoad
handleLoad(c) ==
    [c EXCEPT !.isLoaded = TRUE,
              !.onLoad = IF "onLoad" \in c.props THEN @ + 1 ELSE @]

\* handleError, and the render that follows it: the placeholder replaces the
\* img element.
handleError(c) ==
    [c EXCEPT !.hasError = TRUE,
              !.onError = IF "onError" \in c.props THEN @ + 1 ELSE @,
              !.img = "absent"]

\* The load event is dispatched.
DispatchLoad ==
    /\ image.event = "load"
    /\ image' = handleLoad([image EXCEPT !.event = "none"])
    /\ UNCHANGED Others

\* The error event is dispatched.
DispatchError ==
    /\ image.event = "error"
    /\ image' = handleError([image EXCEPT !.event = "none"])
    /\ UNCHANGED Others

\* The parent renders the component with another src: the states are kept,
\* and the img element, if it is rendered, loads the new src.
ChangeSrc ==
    /\ image.phase = "mounted"
    /\ image.changes < MaxSrcChanges
    /\ image' = IF image.hasError
                   THEN [image EXCEPT !.changes = @ + 1]
                   ELSE [image EXCEPT !.changes = @ + 1, !.img = "loading",
                                      !.event = "none"]
    /\ UNCHANGED Others

NextImage ==
    \/ RenderOnServer
    \/ RenderOnClient
    \/ Hydrate
    \/ BrowserLoads
    \/ BrowserFails
    \/ DispatchLoad
    \/ DispatchError
    \/ ChangeSrc

SpecImage == InitImage /\ [][NextImage]_vars

----------------------------------------------------------------------------
(* The properties.                                                         *)

Done(r) == reqs[r].pc = "done"

\* The handler called `op` on a file of role `what`.
LogHas(rq, op, what) ==
    \E i \in 1..Len(rq.log) : rq.log[i].op = op /\ rq.log[i].what = what

\* The request went through fetch, transform and store.
MissPath(rq) == LogHas(rq, "toFile", "cache")

\* The complete bytes of one blob.
Complete(bytes) == Len(bytes) = FullLen /\ bytes = Bytes(bytes[1].of)

\* The directory a call of resolveLocalImagePath checks its result against.
CheckedRoot(c) ==
    LET normalizedPath == IF StartsWith(c.relativePath, <<"/">>)
                            THEN Tail(c.relativePath) ELSE c.relativePath
    IN  IF c.fn = "resolveLocalImagePathIn" /\ StartsWith(normalizedPath, AssetsPrefix)
          THEN c.projectRoot \o <<"/">> \o AssetsName
          ELSE c.dir

\* C1: a path that resolveLocalImagePath returns lies, path segment by path
\* segment, at or below the root it was resolved against; a sibling directory
\* whose name begins with the root's name is not below it.
C1_ResolvedIsDescendant ==
    (ret.fn # "none" /\ ret.value # NULL) => IsInside(ret.value, CheckedRoot(call))

\* C2: every source file the configured middleware reads for a local src lies
\* inside the configured assetsDir.
C2_SourceReadsInsideAssetsDir ==
    variant = "configured" =>
        \A r \in Requests : \A i \in 1..Len(reqs[r].log) :
            (reqs[r].log[i].op = "readFileSync" /\ reqs[r].log[i].what = "source")
                => IsInside(reqs[r].log[i].arg, AssetsDir)

\* The directories that can be the sandbox root of the root-detecting
\* middleware: the detected one, or before any detection succeeded every
\* directory at or below the working directory.
SandboxRoots ==
    IF Truthy(imagesLocalDir) THEN {imagesLocalDir}
    ELSE {d \in FindCandidates(fs) : d \notin DOMAIN fs /\ IsInside(d, Cwd)}

\* `src` resolves outside `root`.
Escapes(src, root) == ~IsInside(pathResolve(root \o <<"/">> \o src), root)

\* The handler touched the file system for the source: a search, an
\* existence check or a read.
TouchedSource(rq) ==
    \E i \in 1..Len(rq.log) :
        /\ rq.log[i].what = "source"
        /\ rq.log[i].op \in {"find", "existsSync", "readFileSync"}

\* C3: a request whose local src resolves outside the sandbox root is answered
\* 403, before and after the detection of the root, and nothing is searched,
\* checked or read for it on the file system.
C3_EscapingSrcIs403Untouched ==
    variant = "auto" =>
        \A r \in Requests :
            (/\ Done(r)
             /\ Truthy(reqs[r].src)
             /\ ~isUrl(reqs[r].src)
             /\ \A root \in SandboxRoots : Escapes(reqs[r].src, root))
            => (reqs[r].status = 403 /\ ~TouchedSource(reqs[r]))

\* C4: every path the handler checks, reads or writes as a cache file is a
\* direct child of the cache directory, whatever the format parameter holds.
C4_CachePathsInsideCacheDir ==
    \A r \in Requests : \A i \in 1..Len(reqs[r].log) :
        reqs[r].log[i].what = "cache" => Dirname(reqs[r].log[i].arg) = CacheDir

\* C5: a request answered 200 from the cache serves the complete bytes of the
\* file, also while another request is writing that file.
C5_HitServesCompleteFile ==
    \A r \in Requests :
        (Done(r) /\ reqs[r].status = 200 /\ ~MissPath(reqs[r]))
            => Complete(reqs[r].body)

\* C6: a request that missed the cache and stored its output responds with the
\* complete encoded output it wrote, also when another request for the same
\* key writes the file at the same time.
C6_ReadBackIsComplete ==
    \A r \in Requests :
        (Done(r) /\ reqs[r].status = 200 /\ MissPath(reqs[r]))
            => reqs[r].body = Bytes(reqs[r].out)

\* C7: over any interleaving of the requests, the cache file of a key is
\* created by at most one request and no other request writes it afterwards.
C7_CreatedAtMostOnce ==
    \A r1, r2 \in Requests :
        (/\ reqs[r1].opened
         /\ reqs[r2].opened
         /\ reqs[r1].cacheFilePath = reqs[r2].cacheFilePath)
        => r1 = r2

\* Request r was answered 200 on the miss path and the next request, with the
\* same parameters, has been answered.
Repeated(r) ==
    /\ Done(r)
    /\ reqs[r].status = 200
    /\ MissPath(reqs[r])
    /\ Done(r + 1)
    /\ reqs[r + 1].q = reqs[r].q

\* C8: with the requests served one after the other, the request that follows
\* a 200 of the miss path with the same parameters is answered 200 with the
\* same bytes, and the handler only checks and reads the cache file for it: no
\* resolution, fetch, source read or transform.
C8_RepeatServedFromCache ==
    \A r \in 1..(MaxReqs - 1) :
        Repeated(r) =>
            /\ reqs[r + 1].status = 200
            /\ reqs[r + 1].body = reqs[r].body
            /\ \A i \in 1..Len(reqs[r + 1].log) :
                 /\ reqs[r + 1].log[i].what = "cache"
                 /\ reqs[r + 1].log[i].op \in {"existsSync", "readFileSync"}

C8_Witness == \E r \in 1..(MaxReqs - 1) : Repeated(r)

\* C9: a request whose transform succeeded and whose cache write failed is
\* still answered 200.
C9_StoreFailureStill200 ==
    \A r \in Requests :
        (/\ Done(r)
         /\ Decodes(reqs[r].imageBuffer)
         /\ LogHas(reqs[r], "toFile rejected", "cache"))
        => reqs[r].status = 200

\* C11: every 200 response, from the cache or fresh, carries the Content-Type
\* image/<requested format>, whatever the configured extra headers hold; an
\* extra header named Content-Type does not replace it.
C11_ContentTypeIsImageFormat ==
    \A r \in Requests :
        (Done(r) /\ reqs[r].status = 200)
            => reqs[r].contentType = ImageType(reqs[r].format)

\* The request ended with 400, 403 or 404.
ClientError(r) == Done(r) /\ reqs[r].status \in {400, 403, 404}

\* The request ended with 500 because its fetch failed: the fetch is the last
\* thing the handler called.
FetchFailed(r) ==
    /\ Done(r)
    /\ reqs[r].status = 500
    /\ reqs[r].log # <<>>
    /\ reqs[r].log[Len(reqs[r].log)].op = "fetch"

\* C12: a request that ends with 400, 403 or 404, or with 500 after a failed
\* fetch, has never called the store, and no step of it changes a file: the
\* cache directory is as it would be without the request.
C12_FailureStoresNothing ==
    /\ [](\A r \in Requests :
            (ClientError(r) \/ FetchFailed(r))
                => (~reqs[r].opened /\ ~MissPath(reqs[r])))
    /\ [][\A r \in Requests :
            (reqs'[r] # reqs[r] /\ (ClientError(r) \/ FetchFailed(r))')
                => fs' = fs]_vars

\* A fetch has failed and another request was refused, with the files as they
\* were at construction.
C12_Witness ==
    \E r1, r2 \in Requests :
        /\ FetchFailed(r1)
        /\ ClientError(r2)
        /\ fs = InitialFiles

\* The handler of request r can go on: what it awaits can settle.
CanSettle(r) ==
    ENABLED (\/ FetchOk(r) \/ FetchFail(r) \/ Metadata(r) \/ ToFileOpen(r)
             \/ ToFileWrite(r) \/ ToFileFail(r) \/ ToFileDone(r))

\* C13: every failure inside the handler becomes a response. A request is
\* waiting to arrive, awaiting a promise that can settle, or answered; no
\* exception has left the handler; the status of an answer is one of 200,
\* 400, 403, 404 and 500; and an answered request is never answered again.
C13_EveryFailureIsAResponse ==
    /\ [](\A r \in Requests :
            /\ reqs[r].pc \in {"idle", "fetch", "metadata", "toFile", "done"}
            /\ reqs[r].pc \in {"fetch", "metadata", "toFile"} => CanSettle(r)
            /\ Done(r) => reqs[r].status \in {200, 400, 403, 404, 500}
            /\ ~Done(r) => reqs[r].status = 0)
    /\ [][\A r \in Requests : Done(r) => reqs'[r] = reqs[r]]_vars

\* A failed fetch and a rejected store have both been answered with 500.
C13_Witness ==
    \E r1, r2 \in Requests :
        /\ FetchFailed(r1)
        /\ Done(r2)
        /\ reqs[r2].status = 500
        /\ LogHas(reqs[r2], "toFile rejected", "cache")

\* The handler derived a cache file for the request.
Keyed(r) == reqs[r].cacheFilePath # <<>>

\* Two queries that differ at most in src.
SameTransform(q1, q2) ==
    /\ q1.width = q2.width
    /\ q1.height = q2.height
    /\ q1.quality = q2.quality
    /\ q1.format = q2.format

\* src without its query string.
PathPart(src) == Split(src, "?")[1]

\* C14: two requests for local sources that differ only in the query string
\* of src use the same cache file; two requests for URLs that differ in the
\* query string use different cache files.
C14_LocalQueryNotInKey ==
    \A r1, r2 \in Requests :
        (Keyed(r1) /\ Keyed(r2) /\ SameTransform(reqs[r1].q, reqs[r2].q)) =>
            /\ (/\ ~isUrl(reqs[r1].q.src)
                /\ ~isUrl(reqs[r2].q.src)
                /\ PathPart(reqs[r1].q.src) = PathPart(reqs[r2].q.src))
               => reqs[r1].cacheFilePath = reqs[r2].cacheFilePath
            /\ (/\ isUrl(reqs[r1].q.src)
                /\ isUrl(reqs[r2].q.src)
                /\ reqs[r1].q.src # reqs[r2].q.src)
               => reqs[r1].cacheFilePath # reqs[r2].cacheFilePath

\* The values the key stands for: an absent quality is 80, an absent format
\* is webp, an absent width or height is one value of its own.
Effective(a) ==
    [width |-> a.width, height |-> a.height,
     quality |-> IF a.quality = 0 THEN 80 ELSE a.quality,
     format |-> IF a.format \in {UNDEFINED, <<>>} THEN Webp ELSE a.format]

\* C15: generateCacheKey is a function of the effective values of its
\* arguments: for one source, equal effective width, height, quality and
\* format give the same key, and a change of exactly one of them gives a
\* different key.
C15_KeySeparatesParameters ==
    ret.fn = "generateCacheKey" =>
        /\ Effective(call.a) = Effective(call.b) => ret.value[1] = ret.value[2]
        /\ Effective(call.a) # Effective(call.b) => ret.value[1] # ret.value[2]

\* Two calls that differ in the quality alone, one of them leaving it out.
C15_Witness ==
    /\ ret.fn = "generateCacheKey"
    /\ call.a.quality = 0
    /\ call.b.quality = 8
    /\ call.a.width = 1
    /\ call.a.height = 0
    /\ ret.value[1] # ret.value[2]

\* type ImageFormat
ImageFormats ==
    { Webp, Png, <<"j", "p", "e", "g">>, <<"j", "p", "g">>, <<"a", "v", "i", "f">>,
      <<"g", "i", "f">> }

\* C16: a request for which the handler derives a cache key has a width and
\* a height that are absent or positive, a quality between 1 and 100 and a
\* format among the image formats (webp, jpeg, png, avif, gif).
C16_ParametersAreValidated ==
    \A r \in Requests :
        Keyed(r) =>
            /\ reqs[r].width >= 0
            /\ reqs[r].height >= 0
            /\ reqs[r].quality \in 1..100
            /\ reqs[r].format \in ImageFormats

\* The directory local sources are resolved against.
SandboxRoot == IF variant = "configured" THEN AssetsDir ELSE imagesLocalDir

\* The same directory when createImageMiddleware returns.
RootAtConstruction == IF variant = "configured" THEN AssetsDir ELSE UNDEFINED

\* C17: the sandbox root is fixed when the instance is constructed: in every
\* state it is what it was then, whatever requests have been served.
C17_RootFixedAtConstruction == SandboxRoot = RootAtConstruction

\* The calls of detectImagesLocalDir so far: the request and the place in
\* its log.
Detections ==
    {c \in UNION {{<<r, i>> : i \in 1..Len(reqs[r].log)} : r \in Requests} :
        reqs[c[1]].log[c[2]].op = "find"}

\* The request looked its cache file up and did not find it.
Missed(rq) ==
    /\ rq.log # <<>>
    /\ rq.log[1].op = "existsSync"
    /\ Len(rq.log) >= 2 => ~(rq.log[2].op = "readFileSync" /\ rq.log[2].what = "cache")

\* C18: in the root-detecting middleware the detection runs at most once,
\* under every interleaving; once the flag is set it stays set and the root
\* stays what it is; and after a failed detection every request for a local
\* src that misses the cache is answered 404, the file being there or not.
C18_DetectionRunsOnce ==
    /\ [](variant = "auto" =>
            /\ Cardinality(Detections) <= 1
            /\ (imagesLocalDirDetected /\ ~Truthy(imagesLocalDir)) =>
                  \A r \in Requests :
                      (/\ Truthy(reqs[r].src)
                       /\ ~isUrl(reqs[r].src)
                       /\ Missed(reqs[r]))
                      => (Done(r) /\ reqs[r].status = 404))
    /\ [][imagesLocalDirDetected =>
            (imagesLocalDirDetected' /\ imagesLocalDir' = imagesLocalDir)]_vars

\* The detection failed for one request, and a later request for a file that
\* is there was answered 404 without a second detection.
C18_Witness ==
    /\ variant = "auto"
    /\ imagesLocalDirDetected
    /\ ~Truthy(imagesLocalDir)
    /\ \E r1, r2 \in Requests :
          /\ r1 < r2
          /\ LogHas(reqs[r1], "find", "source")
          /\ reqs[r2].src = <<"/", "p", "/", "x">>
          /\ Missed(reqs[r2])
          /\ ~LogHas(reqs[r2], "find", "source")
          /\ reqs[r2].status = 404

\* The handler of request r has called resize.
Resized(r) ==
    /\ reqs[r].pc \in {"toFile", "done"}
    /\ reqs[r].imageBuffer # <<>>
    /\ reqs[r].width # 0 \/ reqs[r].height # 0

\* a / b < c / d, for b > 0 and d # 0.
RatioLess(a, b, c, d) == IF d > 0 THEN a * d < c * b ELSE a * d > c * b

\* C19: in the root-detecting middleware, with both width and height
\* requested and the size of the source known, resize gets one dimension:
\* the requested width alone if the source's width/height is less than
\* width/height, and the requested height alone otherwise, equal ratios
\* included.
C19_OneDimensionConstrains ==
    \A r \in Requests :
        (/\ variant = "auto"
         /\ Resized(r)
         /\ reqs[r].width # 0
         /\ reqs[r].height # 0)
        => LET in == reqs[r].imageBuffer[1].of
           IN  IF RatioLess(in.w, in.h, reqs[r].width, reqs[r].height)
                 THEN reqs[r].resizeWidth = reqs[r].width /\ reqs[r].resizeHeight = 0
                 ELSE reqs[r].resizeWidth = 0 /\ reqs[r].resizeHeight = reqs[r].height

\* A source as wide as it is high was resized for a square box, by height.
C19_Witness ==
    \E r \in Requests :
        /\ variant = "auto"
        /\ Resized(r)
        /\ reqs[r].width = 2
        /\ reqs[r].height = 2
        /\ reqs[r].imageBuffer[1].of.w = 3
        /\ reqs[r].imageBuffer[1].of.h = 3
        /\ reqs[r].resizeWidth = 0
        /\ reqs[r].resizeHeight = 2

\* The handler of request r has encoded an output for a box of positive
\* width and height.
Boxed(r) ==
    /\ reqs[r].opened
    /\ reqs[r].width > 0
    /\ reqs[r].height > 0

\* C20 as claimed: with both width and height requested, the output is no
\* wider than the requested width and no higher than the requested height.
C20_OutputFitsBox ==
    \A r \in Requests :
        Boxed(r) => (reqs[r].out.w <= reqs[r].width /\ reqs[r].out.h <= reqs[r].height)

\* |n|
Abs(n) == IF n < 0 THEN 0 - n ELSE n

\* C20 as amended: with both width and height requested, the output is never
\* larger than the source, keeps the source's aspect ratio to within a pixel,
\* and is bounded by the box in the dimensions handed to resize: both in the
\* configured middleware, the one chosen dimension in the root-detecting one.
C20_OutputFitsConstraint ==
    \A r \in Requests :
        Boxed(r) =>
            LET in == reqs[r].imageBuffer[1].of
                out == reqs[r].out
            IN  /\ out.w >= 1 /\ out.w <= in.w
                /\ out.h >= 1 /\ out.h <= in.h
                /\ Abs(out.w * in.h - out.h * in.w) < (IF in.w > in.h THEN in.w ELSE in.h)
                /\ reqs[r].resizeWidth # 0 => out.w <= reqs[r].width
                /\ reqs[r].resizeHeight # 0 => out.h <= reqs[r].height
                /\ variant = "configured" =>
                      (reqs[r].resizeWidth # 0 /\ reqs[r].resizeHeight # 0)

\* A source wider than it is high, shrunk by height alone for a square box:
\* the output is wider than the box.
C20_Witness ==
    \E r \in Requests :
        /\ variant = "auto"
        /\ Boxed(r)
        /\ reqs[r].resizeWidth = 0
        /\ reqs[r].out.h < reqs[r].imageBuffer[1].of.h
        /\ reqs[r].out.w > reqs[r].width

\* The texts the handler answers a status with.
ErrorBodies(status) ==
    IF status = 400 THEN {"Missing src parameter"}
    ELSE IF status = 403 THEN {"Invalid image path (security: path traversal blocked)"}
    ELSE IF status = 404 THEN {"Failed to detect images directory. Image not found.",
                               "Image file not found"}
    ELSE IF status = 500 THEN {"Internal Server Error"}
    ELSE {}

\* C21: the body of every response other than a 200 is one of the constant
\* texts of its status, and carries no bytes of a file: nothing of the src, of
\* a resolved path, of the detected root or of an exception goes into it.
C21_ErrorBodiesAreConstant ==
    \A r \in Requests :
        (Done(r) /\ reqs[r].status # 200)
            => (reqs[r].text \in ErrorBodies(reqs[r].status) /\ reqs[r].body = <<>>)

\* A src that climbs out of the root was refused and a fetch failed.
C21_Witness ==
    \E r1, r2 \in Requests :
        /\ Done(r1)
        /\ reqs[r1].status = 403
        /\ reqs[r1].src = <<".", ".", "/", ".", ".", "/", "e">>
        /\ FetchFailed(r2)

\* C22: in the Image component, a step into the loaded state calls the
\* consumer's onLoad once and a step into the errored state calls onError
\* once, the step made on mount for an image already complete included; and
\* an errored component stays errored, without its img element.
C22_CallbackPerTransition ==
    [][/\ (image'.isLoaded /\ ~image.isLoaded /\ "onLoad" \in image.props)
            => image'.onLoad = image.onLoad + 1
       /\ (image'.hasError /\ ~image.hasError /\ "onError" \in image.props)
            => image'.onError = image.onError + 1
       /\ image.hasError => (image'.hasError /\ image'.img = "absent")]_vars

\* The query names no source: src is absent or empty, or, for the middleware
\* that strips the query string of a local src, nothing precedes its "?".
NoSource(v, q) ==
    \/ ~Truthy(q.src)
    \/ v = "auto" /\ ~isUrl(q.src) /\ q.src[1] = "?"

\* C10: a request without a source is answered 400 and the handler has called
\* nothing before: no cache check or read, no detection, no source access, no
\* fetch; and no other request is answered 400.
C10_MissingSrcIs400NoIO ==
    \A r \in Requests :
        /\ (reqs[r].pc # "idle" /\ NoSource(variant, reqs[r].q))
              => (Done(r) /\ reqs[r].status = 400 /\ reqs[r].log = <<>>)
        /\ (Done(r) /\ reqs[r].status = 400) => NoSource(variant, reqs[r].q)

\* Both kinds have been answered: an absent src, and one empty once stripped.
C10_Witness ==
    \E r1, r2 \in Requests :
        /\ Done(r1) /\ reqs[r1].status = 400 /\ reqs[r1].q.src = UNDEFINED
        /\ Done(r2) /\ reqs[r2].status = 400 /\ Truthy(reqs[r2].q.src)

=============================================================================
